---- MODULE Spec2Model ----
(***************************************************************************)
(* Model of apps/start/src/routes/api/op.$.tsx: the dashboard's API proxy  *)
(* route.  proxyRequest is an async function; its atomic steps are the     *)
(* synchronous stretches between its awaits (request.text(), fetch).       *)
(*                                                                         *)
(* Text is modelled as a sequence of lexemes ("/", "api", "?", ...): the   *)
(* concatenation of the lexemes is the JavaScript string.  Bodies are      *)
(* sequences of bytes (0..255).                                            *)
(***************************************************************************)
EXTENDS Naturals, Sequences, FiniteSets, TLC

VARIABLES env, req, upstream, pc, targetUrl, init, outReq, resp

vars == <<env, req, upstream, pc, targetUrl, init, outReq, resp>>

(***************************************************************************)
(* Bounds of the model.                                                    *)
(***************************************************************************)
\* invocations in flight at once
NInv == 2
\* lexemes of the inbound path after the mount prefix
MaxRest == 3
\* header lines of a message
MaxHdrs == 3
\* bytes of an inbound body
MaxBody == 3

SeqsUpTo(S, n) == UNION {[1..k -> S] : k \in 0..n}

\* sequences that repeat no element
DistinctSeqs(S, n) ==
  {s \in SeqsUpTo(S, n) : \A j, k \in 1..Len(s) : j # k => s[j] # s[k]}

(***************************************************************************)
(* process.env: a variable is undefined or holds a string.                 *)
(***************************************************************************)
Undefined == [defined |-> FALSE, value |-> <<>>]

Str(s) == [defined |-> TRUE, value |-> s]

\* JavaScript truthiness of string | undefined
Truthy(v) == v.defined /\ v.value # <<>>

\* process.env.INTERNAL_API_URL || process.env.API_URL
ResolveApiUrl(e) == IF Truthy(e.INTERNAL_API_URL) THEN e.INTERNAL_API_URL ELSE e.API_URL

(***************************************************************************)
(* new URL(s): scheme, hostname, optional port, path, optional query.      *)
(***************************************************************************)
SchemeTok == {"http://", "https://"}

PortTok == {":80", ":443", ":8080"}

DefaultPort(scheme) == IF scheme = "http://" THEN ":80" ELSE ":443"

\* position of the first "?" lexeme of s, or Len(s) + 1
QueryStart(s) ==
  IF \E k \in 1..Len(s) : s[k] = "?"
    THEN CHOOSE k \in 1..Len(s) : s[k] = "?" /\ \A j \in 1..(k - 1) : s[j] # "?"
    ELSE Len(s) + 1

URLParses(s) == Len(s) >= 2 /\ s[1] \in SchemeTok /\ s[2] \notin {"/", "?"} \cup PortTok

URLHasPort(s) == Len(s) >= 3 /\ s[3] \in PortTok

\* URL.host: the hostname, and the port unless it is the scheme's default
URLHost(s) ==
  IF URLHasPort(s) /\ s[3] # DefaultPort(s[1]) THEN <<s[2], s[3]>> ELSE <<s[2]>>

\* URL.pathname: the path, "/" when the URL has none
URLPathname(s) ==
  LET from == IF URLHasPort(s) THEN 4 ELSE 3
      raw == SubSeq(s, from, QueryStart(s) - 1)
  IN IF raw = <<>> THEN <<"/">> ELSE raw

\* URL.search: "?" and the query, or "" when the query is absent or empty
URLSearch(s) ==
  LET q == QueryStart(s)
  IN IF q >= Len(s) THEN <<>> ELSE SubSeq(s, q, Len(s))

(***************************************************************************)
(* url.pathname.replace(/^\/api\/op\/?/, '')                               *)
(***************************************************************************)
MountPrefix == <<"/", "api", "/", "op">>

\* the pattern without its optional slash: /^\/api\/op/
StripKeepsSlash(p) ==
  IF Len(p) >= 4 /\ SubSeq(p, 1, 4) = MountPrefix THEN SubSeq(p, 5, Len(p)) ELSE p

RECURSIVE StripEverywhere(_)
\* every occurrence removed: pathname.replaceAll('/api/op', '')
StripEverywhere(p) ==
  IF Len(p) < 4 THEN p
  ELSE IF SubSeq(p, 1, 4) = MountPrefix THEN StripEverywhere(SubSeq(p, 5, Len(p)))
  ELSE <<p[1]>> \o StripEverywhere(Tail(p))

StripMountPrefix(p) ==
  IF Len(p) >= 4 /\ SubSeq(p, 1, 4) = MountPrefix
    THEN IF Len(p) >= 5 /\ p[5] = "/" THEN SubSeq(p, 6, Len(p)) ELSE SubSeq(p, 5, Len(p))
    ELSE p

\* `${internalApiUrl}/${pathAfterProxy}${url.search}`
TargetUrl(base, url) ==
  base \o <<"/">> \o StripMountPrefix(URLPathname(url)) \o URLSearch(url)

(***************************************************************************)
(* Headers (the Fetch API class): a header list of name/value lines.       *)
(* Iteration (entries, forEach) is "sort and combine": names lowercased    *)
(* and sorted, the values of one name joined with ", ", except set-cookie, *)
(* which yields one entry per line.                                        *)
(***************************************************************************)
\* the lowercase header names of the model, in sort order
NameOrder ==
  <<"connection", "content-type", "cookie", "host", "keep-alive", "set-cookie",
    "transfer-encoding", "x-a">>

\* String.prototype.toLowerCase on the header names of the model
ToLowerCase(n) ==
  CASE n = "Connection" -> "connection"
    [] n = "Content-Type" -> "content-type"
    [] n = "Cookie" -> "cookie"
    [] n = "Host" -> "host"
    [] n = "Keep-Alive" -> "keep-alive"
    [] n = "Set-Cookie" -> "set-cookie"
    [] n = "Transfer-Encoding" -> "transfer-encoding"
    [] n = "X-A" -> "x-a"
    [] OTHER -> n

Line(n, v) == [name |-> n, value |-> v]

\* the values of the lines named n (case-insensitively), in list order
ValuesOf(list, n) ==
  LET hits == SelectSeq(list, LAMBDA h : ToLowerCase(h.name) = n)
  IN [k \in 1..Len(hits) |-> hits[k].value]

RECURSIVE Join(_)
\* values joined with ", "
Join(values) ==
  IF Len(values) = 1 THEN values[1]
  ELSE values[1] \o <<", ">> \o Join(Tail(values))

EntriesFor(list, n) ==
  LET values == ValuesOf(list, n)
  IN IF values = <<>> THEN <<>>
     ELSE IF n = "set-cookie" THEN [k \in 1..Len(values) |-> Line(n, values[k])]
     ELSE <<Line(n, Join(values))>>

RECURSIVE EntriesFrom(_, _)
EntriesFrom(list, k) ==
  IF k > Len(NameOrder) THEN <<>>
  ELSE EntriesFor(list, NameOrder[k]) \o EntriesFrom(list, k + 1)

\* headers.entries() / headers.forEach: the sorted, combined entries
Entries(list) == EntriesFrom(list, 1)

\* headers.get(n): the combined value of n, or null (used by the properties)
Get(list, n) ==
  LET values == ValuesOf(list, n)
  IN IF values = <<>> THEN Undefined ELSE Str(Join(values))

\* headers.set(n, v): the first line named n takes v and the others go;
\* a new name is appended
HeadersSet(list, n, v) ==
  IF \E k \in 1..Len(list) : ToLowerCase(list[k].name) = ToLowerCase(n)
    THEN LET first == CHOOSE k \in 1..Len(list) :
                        /\ ToLowerCase(list[k].name) = ToLowerCase(n)
                        /\ \A j \in 1..(k - 1) : ToLowerCase(list[j].name) # ToLowerCase(n)
             kept == {k \in 1..Len(list) :
                        k = first \/ ToLowerCase(list[k].name) # ToLowerCase(n)}
             marked == [k \in 1..Len(list) |->
                          IF k = first THEN [keep |-> TRUE, line |-> Line(ToLowerCase(n), v)]
                          ELSE [keep |-> k \in kept, line |-> list[k]]]
             left == SelectSeq(marked, LAMBDA m : m.keep)
         IN [k \in 1..Len(left) |-> left[k].line]
    ELSE Append(list, Line(ToLowerCase(n), v))

\* the hop-by-hop names the relay skips
HopByHop == {"transfer-encoding", "connection", "keep-alive"}

RECURSIVE CopyHeaders(_, _, _)
\* proxyResponse.headers.forEach((value, key) => { if (...) responseHeaders.set(key, value) })
CopyHeaders(entries, k, acc) ==
  IF k > Len(entries) THEN acc
  ELSE CopyHeaders(entries, k + 1,
         IF ToLowerCase(entries[k].name) \notin HopByHop
           THEN HeadersSet(acc, entries[k].name, entries[k].value)
           ELSE acc)

ResponseHeaders(upHeaders) == CopyHeaders(Entries(upHeaders), 1, <<>>)

\* Object.fromEntries(entries): a later entry of a key replaces an earlier one
FromEntries(entries) ==
  [n \in {entries[k].name : k \in 1..Len(entries)} |->
     LET last == CHOOSE k \in 1..Len(entries) :
                   /\ entries[k].name = n
                   /\ \A j \in (k + 1)..Len(entries) : entries[j].name # n
     IN entries[last].value]

\* the host entry written before the spread, so that the inbound host wins
OutboundHeadersHostFirst(inHeaders, base) ==
  LET copied == FromEntries(Entries(inHeaders))
  IN [n \in DOMAIN copied \cup {"host"} |->
        IF n \in DOMAIN copied THEN copied[n] ELSE URLHost(base)]

\* { ...Object.fromEntries(request.headers.entries()), host: new URL(internalApiUrl).host }
OutboundHeaders(inHeaders, base) ==
  LET copied == FromEntries(Entries(inHeaders))
  IN [n \in DOMAIN copied \cup {"host"} |-> IF n = "host" THEN URLHost(base) ELSE copied[n]]

(***************************************************************************)
(* request.text() decodes the body bytes as UTF-8 (a leading byte order    *)
(* mark dropped, each malformed sequence replaced by U+FFFD); fetch sends  *)
(* a string body encoded as UTF-8.                                         *)
(***************************************************************************)
Replacement == <<65533>>

RECURSIVE Utf8Decode(_, _, _, _, _, _, _)
\* the decoder's state: code point so far, bytes needed, bytes seen, and the
\* bounds of the next continuation byte
Utf8Decode(b, i, cp, needed, seen, lo, hi) ==
  IF i > Len(b) THEN (IF needed # 0 THEN Replacement ELSE <<>>)
  ELSE IF needed = 0 THEN
    CASE b[i] <= 127 -> <<b[i]>> \o Utf8Decode(b, i + 1, 0, 0, 0, 128, 191)
      [] b[i] \in 194..223 -> Utf8Decode(b, i + 1, b[i] - 192, 1, 0, 128, 191)
      [] b[i] \in 224..239 ->
           Utf8Decode(b, i + 1, b[i] - 224, 2, 0,
                      IF b[i] = 224 THEN 160 ELSE 128, IF b[i] = 237 THEN 159 ELSE 191)
      [] b[i] \in 240..244 ->
           Utf8Decode(b, i + 1, b[i] - 240, 3, 0,
                      IF b[i] = 240 THEN 144 ELSE 128, IF b[i] = 244 THEN 143 ELSE 191)
      [] OTHER -> Replacement \o Utf8Decode(b, i + 1, 0, 0, 0, 128, 191)
  ELSE IF b[i] \notin lo..hi THEN Replacement \o Utf8Decode(b, i, 0, 0, 0, 128, 191)
  ELSE IF seen + 1 = needed
    THEN <<cp * 64 + (b[i] - 128)>> \o Utf8Decode(b, i + 1, 0, 0, 0, 128, 191)
    ELSE Utf8Decode(b, i + 1, cp * 64 + (b[i] - 128), needed, seen + 1, 128, 191)

\* Body.text(): UTF-8 decode, without the byte order mark
Text(bytes) ==
  LET cps == Utf8Decode(bytes, 1, 0, 0, 0, 128, 191)
  IN IF cps # <<>> /\ cps[1] = 65279 THEN Tail(cps) ELSE cps

Utf8EncodeOne(c) ==
  IF c < 128 THEN <<c>>
  ELSE IF c < 2048 THEN <<192 + (c \div 64), 128 + (c % 64)>>
  ELSE IF c < 65536 THEN <<224 + (c \div 4096), 128 + ((c \div 64) % 64), 128 + (c % 64)>>
  ELSE <<240 + (c \div 262144), 128 + ((c \div 4096) % 64), 128 + ((c \div 64) % 64),
         128 + (c % 64)>>

RECURSIVE Utf8Encode(_)
\* the bytes fetch sends for a string body
Utf8Encode(cps) ==
  IF cps = <<>> THEN <<>> ELSE Utf8EncodeOne(cps[1]) \o Utf8Encode(Tail(cps))

(***************************************************************************)
(* Messages.  A body is absent (null), a JSON text, or bytes.              *)
(***************************************************************************)
NoBody == [present |-> FALSE, text |-> "", bytes |-> <<>>]

BytesBody(b) == [present |-> TRUE, text |-> "", bytes |-> b]

TextBody(t) == [present |-> TRUE, text |-> t, bytes |-> <<>>]

\* new Response(JSON.stringify({ error }), { status, headers: { 'Content-Type': 'application/json' } })
JsonError(status, json) ==
  [status |-> status, statusText |-> "",
   headers |-> <<Line("content-type", <<"application/json">>)>>,
   body |-> TextBody(json)]

\* the two error texts swapped
ConfigErrorSwapped == JsonError(500, "{\"error\":\"Proxy request failed\"}")

ConfigError == JsonError(500, "{\"error\":\"API URL not configured\"}")

ProxyError == JsonError(502, "{\"error\":\"Proxy request failed\"}")

\* an upstream server error answered with the proxy's own 502
RelayMasksErrors(up) ==
  IF up.status >= 500
    THEN JsonError(502, "{\"error\":\"Proxy request failed\"}")
    ELSE [status |-> up.status, statusText |-> up.statusText,
          headers |-> ResponseHeaders(up.headers), body |-> up.body]

\* new Response(proxyResponse.body, { status, statusText, headers: responseHeaders }).
\* fetch resolves with a status in 200..599 and a null body on 204/205/304, so
\* the constructor does not throw on its result.
Relay(up) ==
  [status |-> up.status, statusText |-> up.statusText,
   headers |-> ResponseHeaders(up.headers), body |-> up.body]

\* body: method !== 'GET' && method !== 'HEAD' ? await request.text() : undefined
SendsBody(method) == method # "GET" /\ method # "HEAD"

\* the string request.text() resolves with, as fetch sends it
ForwardedBody(body) == BytesBody(Utf8Encode(Text(body.bytes)))

\* method and headers of fetch's second argument, evaluated before the body
FetchInit(r, base) == [method |-> r.method, headers |-> OutboundHeaders(r.headers, base)]

FetchCall(url, i, body) ==
  [url |-> url, method |-> i.method, headers |-> i.headers, body |-> body]

(***************************************************************************)
(* proxyRequest, one action per synchronous stretch.  Inv is the set of    *)
(* invocations the framework has started; req[i] is the inbound request,   *)
(* upstream[i] what the backend and the network will answer to i's call.   *)
(***************************************************************************)
Inv == DOMAIN req

Base == ResolveApiUrl(env).value

Done(i, response) ==
  /\ resp' = [resp EXCEPT ![i] = Append(@, response)]
  /\ pc' = [pc EXCEPT ![i] = "done"]

\* line 22: if (!internalApiUrl)
CanStartNoConfig(i) == pc[i] = "start" /\ ~Truthy(ResolveApiUrl(env))

\* line 43: new URL(internalApiUrl) throws
CanStartBadBase(i) == pc[i] = "start" /\ Truthy(ResolveApiUrl(env)) /\ ~URLParses(Base)

\* line 45: the method sends a body
CanStartText(i) ==
  pc[i] = "start" /\ Truthy(ResolveApiUrl(env)) /\ URLParses(Base) /\ SendsBody(req[i].method)

\* line 45: GET or HEAD
CanStartFetch(i) ==
  pc[i] = "start" /\ Truthy(ResolveApiUrl(env)) /\ URLParses(Base) /\ ~SendsBody(req[i].method)

\* line 46: request.text() settles
CanTextResolve(i) == pc[i] = "text"

\* line 38: fetch resolves
CanFetchResolve(i) == pc[i] = "fetch" /\ upstream[i].ok

\* line 65: fetch rejects
CanFetchReject(i) == pc[i] = "fetch" /\ ~upstream[i].ok

\* some step of invocation i can be taken
CanStep(i) ==
  \/ CanStartNoConfig(i)
  \/ CanStartBadBase(i)
  \/ CanStartText(i)
  \/ CanStartFetch(i)
  \/ CanTextResolve(i)
  \/ CanFetchResolve(i)
  \/ CanFetchReject(i)

\* lines 20-27: no base URL
StartNoConfig(i) ==
  /\ CanStartNoConfig(i)
  /\ Done(i, ConfigError)
  /\ UNCHANGED <<env, req, upstream, targetUrl, init, outReq>>

\* the base URL parsed outside the try block: the TypeError escapes
StartBadBaseEscapes(i) ==
  /\ CanStartBadBase(i)
  /\ targetUrl' = [targetUrl EXCEPT ![i] = TargetUrl(Base, req[i].url)]
  /\ pc' = [pc EXCEPT ![i] = "done"]
  /\ UNCHANGED <<env, req, upstream, init, outReq, resp>>

\* lines 30-43, 65-70: new URL(internalApiUrl) throws inside the try block
StartBadBase(i) ==
  /\ CanStartBadBase(i)
  /\ targetUrl' = [targetUrl EXCEPT ![i] = TargetUrl(Base, req[i].url)]
  /\ Done(i, ProxyError)
  /\ UNCHANGED <<env, req, upstream, init, outReq>>

\* targetUrl kept in one module-level variable that every invocation writes
StartTextShared(i) ==
  /\ CanStartText(i)
  /\ targetUrl' = [j \in Inv |-> TargetUrl(Base, req[i].url)]
  /\ init' = [init EXCEPT ![i] = <<FetchInit(req[i], Base)>>]
  /\ pc' = [pc EXCEPT ![i] = "text"]
  /\ UNCHANGED <<env, req, upstream, outReq, resp>>

\* lines 30-46: up to await request.text()
StartText(i) ==
  /\ CanStartText(i)
  /\ targetUrl' = [targetUrl EXCEPT ![i] = TargetUrl(Base, req[i].url)]
  /\ init' = [init EXCEPT ![i] = <<FetchInit(req[i], Base)>>]
  /\ pc' = [pc EXCEPT ![i] = "text"]
  /\ UNCHANGED <<env, req, upstream, outReq, resp>>

\* lines 30-48: GET (or HEAD): fetch is called with no body
StartFetch(i) ==
  /\ CanStartFetch(i)
  /\ targetUrl' = [targetUrl EXCEPT ![i] = TargetUrl(Base, req[i].url)]
  /\ init' = [init EXCEPT ![i] = <<FetchInit(req[i], Base)>>]
  /\ outReq' = [outReq EXCEPT ![i] =
       Append(@, FetchCall(targetUrl'[i], init'[i][1], NoBody))]
  /\ pc' = [pc EXCEPT ![i] = "fetch"]
  /\ UNCHANGED <<env, req, upstream, resp>>

\* lines 38, 46: request.text() resolved: fetch is called with the text
TextResolved(i) ==
  /\ CanTextResolve(i)
  /\ outReq' = [outReq EXCEPT ![i] =
       Append(@, FetchCall(targetUrl[i], init[i][1], ForwardedBody(req[i].body)))]
  /\ pc' = [pc EXCEPT ![i] = "fetch"]
  /\ UNCHANGED <<env, req, upstream, targetUrl, init, resp>>

\* lines 50-64: fetch resolved: the response is relayed
FetchResolved(i) ==
  /\ CanFetchResolve(i)
  /\ Done(i, Relay(upstream[i]))
  /\ UNCHANGED <<env, req, upstream, targetUrl, init, outReq>>

\* a rejected fetch tried once more before the 502
FetchRejectedRetries(i) ==
  /\ CanFetchReject(i)
  /\ IF Len(outReq[i]) < 2
       THEN /\ outReq' = [outReq EXCEPT ![i] = Append(@, @[1])]
            /\ UNCHANGED <<pc, resp>>
       ELSE Done(i, ProxyError) /\ UNCHANGED outReq
  /\ UNCHANGED <<env, req, upstream, targetUrl, init>>

\* lines 65-70: fetch rejected
FetchRejected(i) ==
  /\ CanFetchReject(i)
  /\ Done(i, ProxyError)
  /\ UNCHANGED <<env, req, upstream, targetUrl, init, outReq>>

Next ==
  \/ \E i \in Inv : StartNoConfig(i)
  \/ \E i \in Inv : StartBadBase(i)
  \/ \E i \in Inv : StartText(i)
  \/ \E i \in Inv : StartFetch(i)
  \/ \E i \in Inv : TextResolved(i)
  \/ \E i \in Inv : FetchResolved(i)
  \/ \E i \in Inv : FetchRejected(i)

(***************************************************************************)
(* Inputs.                                                                 *)
(***************************************************************************)
\* the six methods the route binds (lines 76-81)
Methods == {"GET", "POST", "PUT", "PATCH", "DELETE", "OPTIONS"}

BaseA == <<"http://", "api.internal", ":8080">>

BaseB == <<"http://", "api.internal", ":80">>

\* no scheme: new URL throws
BaseBad == <<"api.internal", ":8080">>

Envs ==
  {[INTERNAL_API_URL |-> Undefined, API_URL |-> Undefined],
   [INTERNAL_API_URL |-> Str(BaseA), API_URL |-> Undefined],
   [INTERNAL_API_URL |-> Undefined, API_URL |-> Str(BaseB)],
   [INTERNAL_API_URL |-> Str(<<>>), API_URL |-> Str(BaseA)],
   [INTERNAL_API_URL |-> Str(BaseBad), API_URL |-> Str(BaseB)]}

\* the dashboard's own origin, as request.url carries it
Origin == <<"https://", "dash.example">>

PathTok == {"/", "api", "op", "users"}

\* paths the route /api/op/$ matches
Paths ==
  {MountPrefix, MountPrefix \o <<"/", "users", "/", "42">>}
    \cup {MountPrefix \o <<"/">> \o r : r \in SeqsUpTo(PathTok, MaxRest)}

\* the raw query of request.url: none, a bare "?", or "?active=true"
Queries == {<<>>, <<"?">>, <<"?", "active=true">>}

InLines ==
  {Line("Host", <<"dash.example">>), Line("Cookie", <<"s=1">>),
   Line("Content-Type", <<"application/json">>), Line("X-A", <<"v1">>),
   Line("x-a", <<"v2">>)}

UpLines ==
  {Line("Transfer-Encoding", <<"chunked">>), Line("connection", <<"keep-alive">>),
   Line("Keep-Alive", <<"timeout=5">>), Line("Set-Cookie", <<"a=1">>),
   Line("Set-Cookie", <<"b=2">>), Line("X-A", <<"v1">>), Line("x-a", <<"v2">>)}

\* "A"; C3 A9 is U+00E9; FF is never valid; EF BB BF is the byte order mark
BodyBytes == {65, 195, 169, 255, 239, 187, 191}

Request(m, u, h, b) == [method |-> m, url |-> u, headers |-> h, body |-> b]

Failure(kind) ==
  [ok |-> FALSE, failure |-> kind, status |-> 0, statusText |-> "", headers |-> <<>>,
   body |-> NoBody]

Reply(status, text, h, b) ==
  [ok |-> TRUE, failure |-> "", status |-> status, statusText |-> text, headers |-> h,
   body |-> b]

HostLine == <<Line("Host", <<"dash.example">>)>>

ReqFew ==
  {Request("GET", Origin \o MountPrefix \o <<"/", "users", "/", "42", "?", "active=true">>, HostLine,
           NoBody),
   Request("POST", Origin \o MountPrefix \o <<"/", "api", "/", "op">>,
           HostLine \o <<Line("Cookie", <<"s=1">>)>>, BytesBody(<<65>>)),
   Request("DELETE", Origin \o MountPrefix, <<>>, NoBody)}

UpFew ==
  {Failure("network"), Failure("timeout"),
   Reply(200, "OK", <<Line("Set-Cookie", <<"a=1">>), Line("connection", <<"keep-alive">>)>>,
         BytesBody(<<65>>)),
   Reply(500, "Internal Server Error", <<Line("X-A", <<"v1">>)>>, NoBody)}

ReqUrl ==
  {Request(m, Origin \o p \o q, HostLine, NoBody) : m \in Methods, p \in Paths, q \in Queries}

ReqHeaders ==
  {Request(m, Origin \o MountPrefix \o <<"/", "users">>, h, NoBody) :
     m \in {"GET", "POST"}, h \in DistinctSeqs(InLines, MaxHdrs)}

UpHeaders ==
  {Failure("network")} \cup
  {Reply(200, "OK", h, BytesBody(<<65>>)) : h \in DistinctSeqs(UpLines, MaxHdrs)}

ReqBody ==
  {Request(m, Origin \o MountPrefix \o <<"/", "users">>, HostLine, b) :
     m \in Methods, b \in {NoBody} \cup {BytesBody(s) : s \in SeqsUpTo(BodyBytes, MaxBody)}}

Begin(n) ==
  /\ pc = [i \in 1..n |-> "start"]
  /\ targetUrl = [i \in 1..n |-> <<>>]
  /\ init = [i \in 1..n |-> <<>>]
  /\ outReq = [i \in 1..n |-> <<>>]
  /\ resp = [i \in 1..n |-> <<>>]

\* NInv invocations in flight at once
Init ==
  /\ env \in Envs
  /\ req \in [1..NInv -> ReqFew]
  /\ upstream \in [1..NInv -> UpFew]
  /\ Begin(NInv)

Spec == Init /\ [][Next]_vars

\* one invocation, over the paths and queries
InitUrl ==
  /\ env \in Envs
  /\ req \in [1..1 -> ReqUrl]
  /\ upstream \in [1..1 -> {Failure("network"), Reply(200, "OK", <<>>, NoBody)}]
  /\ Begin(1)

SpecUrl == InitUrl /\ [][Next]_vars

\* one invocation, over the inbound headers or the upstream's
InitHeaders ==
  /\ env \in Envs
  /\ \/ req \in [1..1 -> ReqHeaders] /\ upstream \in [1..1 -> UpFew]
     \/ req \in [1..1 -> ReqFew] /\ upstream \in [1..1 -> UpHeaders]
  /\ Begin(1)

SpecHeaders == InitHeaders /\ [][Next]_vars

\* one invocation, over the inbound bodies
InitBody ==
  /\ env \in Envs
  /\ req \in [1..1 -> ReqBody]
  /\ upstream \in [1..1 -> {Failure("network"), Reply(200, "OK", <<>>, NoBody)}]
  /\ Begin(1)

SpecBody == InitBody /\ [][Next]_vars

(***************************************************************************)
(* Properties.                                                             *)
(***************************************************************************)
Configured == Truthy(ResolveApiUrl(env))

NeitherSet == ~env.INTERNAL_API_URL.defined /\ ~env.API_URL.defined

Returned(i) == pc[i] = "done"

JsonContentType(r) == Get(r.headers, "content-type") = Str(<<"application/json">>)

Is500(r) ==
  /\ r.status = 500
  /\ r.body = TextBody("{\"error\":\"API URL not configured\"}")
  /\ JsonContentType(r)

Is502(r) ==
  /\ r.status = 502
  /\ r.body = TextBody("{\"error\":\"Proxy request failed\"}")
  /\ JsonContentType(r)

\* the outbound call of i fails: the target cannot be parsed, or the network
\* or the backend fails the call
CallFails(i) == ~URLParses(Base) \/ ~upstream[i].ok

\* C1: with neither INTERNAL_API_URL nor API_URL set, whatever the method, path
\* and query, the invocation returns exactly the 500 JSON error and does
\* nothing else.
C1_NoConfigIs500 ==
  NeitherSet =>
    \A i \in Inv :
      /\ pc[i] \in {"start", "done"}
      /\ Returned(i) => Len(resp[i]) = 1 /\ Is500(resp[i][1])

C1_Witness ==
  /\ NeitherSet
  /\ Returned(1)
  /\ req[1].method = "PATCH"
  /\ URLPathname(req[1].url) = MountPrefix \o <<"/", "users", "/", "42">>
  /\ URLSearch(req[1].url) # <<>>
  /\ Is500(resp[1][1])

\* C2: with a base URL configured, an outbound call that fails (malformed
\* target, network error, timeout) always ends in exactly the 502 JSON error.
C2_FailureIs502 ==
  \A i \in Inv :
    (Returned(i) /\ Configured /\ CallFails(i)) => Len(resp[i]) = 1 /\ Is502(resp[i][1])

C2_Witness ==
  /\ Configured
  /\ Returned(1) /\ upstream[1].failure = "timeout" /\ Is502(resp[1][1])
  /\ Len(outReq[1]) = 1

\* the inbound path matches the mount prefix /api/op/
MatchesMount(url) ==
  LET p == URLPathname(url)
  IN Len(p) >= 5 /\ SubSeq(p, 1, 5) = MountPrefix \o <<"/">>

\* the path without the leading mount prefix, one "/" kept before the rest
StripPrefix(p) == <<"/">> \o SubSeq(p, 6, Len(p))

\* the query string as request.url carries it: from the first "?" on
RawQuery(url) == SubSeq(url, QueryStart(url), Len(url))

\* C3 (as stated): for every path P under /api/op/ and every query string Q,
\* empty or beginning with "?", the target is base + stripPrefix(P) + Q.
C3_TargetIsBasePathQuery ==
  \A i \in Inv :
    (pc[i] # "start" /\ Configured /\ MatchesMount(req[i].url)) =>
      targetUrl[i] = Base \o StripPrefix(URLPathname(req[i].url)) \o RawQuery(req[i].url)

\* C3 (amended): the same, for a query string that is empty or "?" followed by
\* a non-empty query; a bare "?" is not carried into the target.
C3_TargetIsBasePathSearch ==
  \A i \in Inv :
    (pc[i] # "start" /\ Configured /\ MatchesMount(req[i].url)) =>
      targetUrl[i] =
        Base \o StripPrefix(URLPathname(req[i].url)) \o
          (IF RawQuery(req[i].url) = <<"?">> THEN <<>> ELSE RawQuery(req[i].url))

C3_Witness ==
  /\ req[1].method = "GET"
  /\ req[1].url = Origin \o <<"/", "api", "/", "op", "/", "users", "/", "42", "?", "active=true">>
  /\ targetUrl[1] = <<"http://", "api.internal", ":8080", "/", "users", "/", "42", "?", "active=true">>
  /\ Len(outReq[1]) = 1 /\ outReq[1][1].url = targetUrl[1]

\* the places where pat occurs in s
Occurrences(s, pat) ==
  {k \in 1..Len(s) : k + Len(pat) - 1 <= Len(s) /\ SubSeq(s, k, k + Len(pat) - 1) = pat}

NotHopByHop(h) == ToLowerCase(h.name) \notin HopByHop

\* C5: a relayed response has no transfer-encoding, connection or keep-alive
\* entry and keeps every other header entry of the upstream response, each
\* value of a repeated header (several Set-Cookie) included.
C5_RelayKeepsOtherHeaders ==
  \A i \in Inv :
    (Returned(i) /\ Configured /\ ~CallFails(i)) =>
      /\ \A k \in 1..Len(resp[i][1].headers) : NotHopByHop(resp[i][1].headers[k])
      /\ Entries(resp[i][1].headers) = SelectSeq(Entries(upstream[i].headers), NotHopByHop)

\* C6: GET sends no body upstream; every other routed method sends the whole
\* inbound body.
C6_BodyForwarded ==
  \A i \in Inv : \A k \in 1..Len(outReq[i]) :
    IF req[i].method \in {"GET", "HEAD"}
      THEN ~outReq[i][k].body.present
      ELSE outReq[i][k].body.bytes = req[i].body.bytes

\* the lowercase names of a header list
Names(list) == {ToLowerCase(list[k].name) : k \in 1..Len(list)}

\* C7: the outbound call has the inbound method, and the inbound headers with
\* exactly one host entry, the host of the base URL.
C7_MethodAndHeaders ==
  \A i \in Inv : \A k \in 1..Len(outReq[i]) :
    LET h == outReq[i][k].headers
    IN /\ outReq[i][k].method = req[i].method
       /\ DOMAIN h = Names(req[i].headers) \cup {"host"}
       /\ h["host"] = (IF Base = BaseA THEN <<"api.internal", ":8080">> ELSE <<"api.internal">>)
       /\ \A n \in DOMAIN h \ {"host"} : Str(h[n]) = Get(req[i].headers, n)

C7_Witness ==
  /\ Len(outReq[1]) = 1
  /\ req[1].method = "POST"
  /\ Len(req[1].headers) = 3
  /\ Get(req[1].headers, "host") = Str(<<"dash.example">>)
  /\ Get(req[1].headers, "x-a") = Str(<<"v1", ", ", "v2">>)
  /\ outReq[1][1].headers["host"] = <<"api.internal", ":8080">>

\* C8: an invocation calls the backend at most once: never without a base
\* URL, and not again after a failure; it has called once exactly when it
\* waits for the backend or has returned after waiting.
C8_AtMostOneCall ==
  \A i \in Inv :
    /\ Len(outReq[i]) <= 1
    /\ ~Configured => outReq[i] = <<>>
    /\ Len(outReq[i]) = 1 <=> (Configured /\ URLParses(Base) /\ pc[i] \in {"fetch", "done"})

C8_Witness ==
  /\ Configured /\ URLParses(Base)
  /\ Returned(1) /\ ~upstream[1].ok
  /\ Len(outReq[1]) = 1
  /\ Is502(resp[1][1])

\* C9: an invocation returns once, and what it returns is the 500, the 502 or
\* the relay with the upstream's status and status text; the relay exactly
\* when a base URL is configured and the call succeeded; until it returns it
\* can take a step.
C9_OneOfThreeOutcomes ==
  \A i \in Inv :
    /\ Len(resp[i]) = (IF Returned(i) THEN 1 ELSE 0)
    /\ ~Returned(i) => CanStep(i)
    /\ Returned(i) =>
         IF ~Configured THEN Is500(resp[i][1])
         ELSE IF CallFails(i) THEN Is502(resp[i][1])
         ELSE /\ resp[i][1].status = upstream[i].status
              /\ resp[i][1].statusText = upstream[i].statusText
              /\ resp[i][1].body = upstream[i].body

C9_Witness ==
  /\ Returned(1) /\ upstream[1].ok /\ upstream[1].status = 500
  /\ resp[1][1].status = 500 /\ resp[1][1].statusText = "Internal Server Error"
  /\ ~Is502(resp[1][1])

\* what invocation i calls and returns when it runs alone
AloneCalls(e, r) ==
  LET base == ResolveApiUrl(e).value
  IN IF ~Truthy(ResolveApiUrl(e)) \/ ~URLParses(base) THEN <<>>
     ELSE <<FetchCall(TargetUrl(base, r.url), FetchInit(r, base),
                      IF SendsBody(r.method) THEN ForwardedBody(r.body) ELSE NoBody)>>

AloneResponse(e, r, up) ==
  IF ~Truthy(ResolveApiUrl(e)) THEN ConfigError
  ELSE IF ~URLParses(ResolveApiUrl(e).value) \/ ~up.ok THEN ProxyError
  ELSE Relay(up)

\* C10: with several invocations in flight and their steps interleaved, each
\* one's outbound call and response are those of running it alone on its own
\* request, the environment and its own upstream reply.
C10_InvocationsIndependent ==
  \A i \in Inv :
    /\ pc[i] \in {"fetch", "done"} => outReq[i] = AloneCalls(env, req[i])
    /\ pc[i] \in {"start", "text"} => outReq[i] = <<>>
    /\ Returned(i) => resp[i] = <<AloneResponse(env, req[i], upstream[i])>>

C10_Witness ==
  /\ Cardinality(Inv) >= 2
  /\ req[1] # req[2] /\ upstream[1] # upstream[2]
  /\ pc[1] = "fetch" /\ pc[2] = "text"
  /\ outReq[1][1].url # TargetUrl(Base, req[2].url)

====
